---- MODULE Spec2Model ----
(***************************************************************************)
(* Transkeet: push-to-talk capture / transcribe / paste orchestration.     *)
(* State machine of TranskeetApp (src/src/transkeet/app.py) together with  *)
(* Transcriber.transcribe (src/src/transkeet/transcriber.py).              *)
(*                                                                         *)
(* Threads: the pynput listener thread (on_press / on_release), the UI     *)
(* thread (menu toggle), the audio callback context, the start-up model    *)
(* loader and one background thread per dispatched transcription.          *)
(* A `with self._lock` block is one step: the lock admits one holder, so   *)
(* no other block runs inside it; what precedes the block in a handler is  *)
(* a step of its own.                                                      *)
(*                                                                         *)
(* Spec follows the controller and the key listener and takes a background *)
(* thread as one step; the clipboard is not followed there and no          *)
(* vocabulary is configured.  TaskSpec follows the background threads      *)
(* statement by statement (transcribe, vocabulary loop, the four clipboard *)
(* steps) under the menu toggle.  PasteSpec follows one background thread  *)
(* from the text the engine returned on.  StartupSpec follows main() from   *)
(* the configuration file (src/src/transkeet/config.py) to the parsed      *)
(* hotkey.                                                                 *)
(***************************************************************************)
EXTENDS Integers, Sequences, FiniteSets, TLC

\* ---------------------------------------------------------------- bounds
MaxChunks == 2      \* chunks the capture callback delivers into one buffer
MaxTasks == 2       \* background transcription threads alive at once
MaxStreams == 2     \* InputStream objects open at once
MaxHeld == 2        \* keys physically down at once

\* ------------------------------------------------------ program constants
sample_rate == 16000
ICON_IDLE == "ICON_IDLE"
ICON_RECORDING == "ICON_RECORDING"
ICON_TRANSCRIBING == "ICON_TRANSCRIBING"

\* len(audio) < self.sample_rate * 0.3, in integers: 16000 * 3 / 10
MinSamples == (sample_rate * 3) \div 10

\* frames in one chunk the device delivers: 0.15 s of audio
ChunkSizes == {MinSamples \div 2}

\* text the engine returns after strip(): nothing, or some words
Texts == {"", "foo", "i use vs code daily"}

\* ------------------------------------------------------------------- keys
\* A pynput Key member is [name |-> <characters>]; a KeyCode made from a
\* character has no name attribute.
N_cmd == <<"c", "m", "d">>
N_cmd_l == <<"c", "m", "d", "_", "l">>
N_cmd_r == <<"c", "m", "d", "_", "r">>
N_space == <<"s", "p", "a", "c", "e">>
SUFFIX_L == <<"_", "l">>
SUFFIX_R == <<"_", "r">>

\* ---------------------------------------------------------------- strings
CharAt(s, i) == SubSeq(s, i, i)

\* the characters of a string, one by one
Chars(s) == [i \in 1..Len(s) |-> CharAt(s, i)]

UPPER == "ABCDEFGHIJKLMNOPQRSTUVWXYZ"
LOWER == "abcdefghijklmnopqrstuvwxyz"

LowerChar(c) ==
    IF \E i \in 1..Len(UPPER) : CharAt(UPPER, i) = c
    THEN CharAt(LOWER, CHOOSE i \in 1..Len(UPPER) : CharAt(UPPER, i) = c)
    ELSE c

\* str.lower()
RECURSIVE Lower(_)
Lower(s) ==
    IF s = "" THEN ""
    ELSE LowerChar(CharAt(s, 1)) \o Lower(SubSeq(s, 2, Len(s)))

RECURSIVE LStrip(_)
LStrip(s) ==
    IF s # "" /\ CharAt(s, 1) = " " THEN LStrip(SubSeq(s, 2, Len(s))) ELSE s

RECURSIVE RStrip(_)
RStrip(s) ==
    IF s # "" /\ CharAt(s, Len(s)) = " "
    THEN RStrip(SubSeq(s, 1, Len(s) - 1)) ELSE s

\* str.strip()
Strip(s) == RStrip(LStrip(s))

\* str.split(sep) for a separator of one character
RECURSIVE Split(_, _)
Split(s, sep) ==
    IF \E i \in 1..Len(s) : CharAt(s, i) = sep
    THEN LET i == CHOOSE j \in 1..Len(s) :
                      /\ CharAt(s, j) = sep
                      /\ \A h \in 1..(j - 1) : CharAt(s, h) # sep
         IN  <<SubSeq(s, 1, i - 1)>> \o Split(SubSeq(s, i + 1, Len(s)), sep)
    ELSE <<s>>

\* members of pynput's Key enumeration the model knows
KeyNames == {"cmd", "cmd_l", "cmd_r", "shift", "shift_l", "shift_r",
             "ctrl", "ctrl_l", "ctrl_r", "alt", "alt_l", "alt_r",
             "space", "esc", "f1"}

\* attributes of the class Key that are not members of the enumeration
KeyClassAttrs == {"mro", "__doc__", "__name__"}

\* names for which getattr(Key, name) yields a member
KeyAttrs == {Chars(name) : name \in KeyNames}

Key(name) == [name |-> name]

\* every key object of the model
Keys == {Key(n) : n \in KeyAttrs}

\* the keys the user touches when the hotkey is combo: the keys of the combo
\* and the generic, left and right key of the modifier
Keyboard(combo) == combo \cup {Key(N_cmd), Key(N_cmd_l), Key(N_cmd_r)}

\* the hotkey sets _parse_hotkey yields for "cmd", "cmd+space", "cmd_r"
Combos == {{Key(N_cmd)}, {Key(N_cmd), Key(N_space)}, {Key(N_cmd_r)}}

TaskIds == 1..MaxTasks

VARIABLES
    hotkey_keys,        \* self._hotkey_keys
    pressed_keys,       \* self._pressed_keys
    physical,           \* keys physically down, as of the events delivered
    recording,          \* self._recording
    hotkey_recording,   \* self._hotkey_recording
    stream,             \* self._stream is not None
    openStreams,        \* InputStream objects opened and not closed
    audio_frames,       \* self._audio_frames: frame count of each chunk
    captured,           \* chunks delivered since the recording became active
    listenerPc,         \* listener thread inside on_press / on_release
    title,              \* self.title
    toggle_title,       \* self._toggle_item.title
    model_loaded,       \* self._transcriber._model is not None
    tasks,              \* background _transcribe_and_paste threads
    startedBy,          \* path whose _start_recording call began the recording
    ended,              \* what the step just taken brought to an end
    clipboard,          \* string on the general pasteboard, if any
    prior_clipboard,    \* what the user had on the pasteboard
    clipboard_fault,    \* a pasteboard or keystroke call has raised
    vocab_replacements, \* self._vocab_replacements
    startup             \* main(): configuration file, position, what was read

vars == <<hotkey_keys, pressed_keys, physical, recording, hotkey_recording,
          stream, openStreams, audio_frames, captured, listenerPc, title,
          toggle_title, model_loaded, tasks, startedBy, ended,
          clipboard, prior_clipboard, clipboard_fault, vocab_replacements,
          startup>>

keyVars == <<hotkey_keys, pressed_keys, physical, hotkey_recording, listenerPc>>
ctlVars == <<recording, stream, openStreams, audio_frames, captured, title,
             toggle_title, tasks, startedBy>>
clipVars == <<clipboard, prior_clipboard, clipboard_fault>>
envVars == <<clipVars, vocab_replacements, startup>>

\* ---------------------------------------------------------------- helpers
RECURSIVE SumSeq(_)
SumSeq(s) == IF s = <<>> THEN 0 ELSE Head(s) + SumSeq(Tail(s))

\* len(np.concatenate(self._audio_frames, axis=0).flatten())
AudioLen(frames) == SumSeq(frames)

EndsWith(name, suffix) ==
    /\ Len(name) >= Len(suffix)
    /\ SubSeq(name, Len(name) - Len(suffix) + 1, Len(name)) = suffix

\* mutant: every left/right variant collapses to the generic key, whatever
\* the hotkey names
CollapseToGeneric(key, suffix, combo) ==
    LET base == SubSeq(key.name, 1, Len(key.name) - Len(suffix))
    IN  IF base \notin KeyAttrs THEN key ELSE Key(base)

\* body of the suffix loop of _canonical once name.endswith(suffix)
Collapse(key, suffix, combo) ==
    LET base == SubSeq(key.name, 1, Len(key.name) - Len(suffix))
    IN  IF base \notin KeyAttrs THEN key
        ELSE IF Key(base) \in combo THEN Key(base)
        ELSE key

\* mutant: only the "_l" suffix is looked at
_canonical_left_only(key, combo) ==
    IF "name" \in DOMAIN key
    THEN IF EndsWith(key.name, SUFFIX_L) THEN Collapse(key, SUFFIX_L, combo)
         ELSE key
    ELSE key

_canonical(key, combo) ==
    IF "name" \in DOMAIN key
    THEN IF EndsWith(key.name, SUFFIX_L) THEN Collapse(key, SUFFIX_L, combo)
         ELSE IF EndsWith(key.name, SUFFIX_R) THEN Collapse(key, SUFFIX_R, combo)
         ELSE key
    ELSE key

\* mutant: the gate also discards a buffer of exactly 0.3 s
TooShortInclusive(n) == n <= MinSamples

\* if len(audio) < self.sample_rate * 0.3: return ""
TooShort(n) == n < MinSamples

\* a background thread: its position and len(audio)
FreeTask == [pc |-> "free", n |-> 0]

InFlight(i) == tasks[i].pc # "free"

\* what a step brought to an end: nothing, a recording that captured no
\* audio, or a background thread; for a thread: len(audio), the text it held,
\* whether self._model.transcribe was called, the error raised, what it
\* reported and whether an exception left the thread unhandled
NoRun == [what |-> "none", n |-> 0, text |-> "", invoked |-> FALSE,
          err |-> "none", outcome |-> "none", uncaught |-> FALSE]

\* ------------------------------------------------------------- vocabulary
\* pattern.sub(replacement, text) for a pattern that matches the literal
\* string `pattern`: scanning from the left, every match is replaced and the
\* scan goes on behind it
RECURSIVE Sub(_, _, _)
Sub(pattern, replacement, text) ==
    IF Len(text) < Len(pattern) THEN text
    ELSE IF SubSeq(text, 1, Len(pattern)) = pattern
         THEN replacement
              \o Sub(pattern, replacement,
                     SubSeq(text, Len(pattern) + 1, Len(text)))
         ELSE SubSeq(text, 1, 1)
              \o Sub(pattern, replacement, SubSeq(text, 2, Len(text)))

\* the (pattern, replacement) lists configurations hold: none, two chained
\* rules, a product name, a filler word that is deleted
Vocabularies ==
    { <<>>,
      << <<"foo", "bar">>, <<"bar", "baz">> >>,
      << <<"vs code", "VS Code">> >>,
      << <<"foo", "">> >> }

\* further lists: a replacement that holds its own pattern, a pattern that
\* overlaps itself, a rule whose output an earlier rule would match, a rule
\* that matches only what the rule before it wrote
MoreVocabularies ==
    Vocabularies \cup
    { << <<"o", "oo">> >>,
      << <<"oo", "o">> >>,
      << <<"bar", "foo">>, <<"foo", "bar">> >>,
      << <<"code", "Code">>, <<"vs Code", "VS Code">> >> }

\* the rules in configured order, one compiled pattern for each
build_vocabulary_replacements(vocabulary) ==
    [k \in 1..Len(vocabulary) |->
        [pattern |-> vocabulary[k][1], replacement |-> vocabulary[k][2]]]

\* -------------------------------------------------------------- clipboard
\* NSPasteboard.stringForType_: None, or the string held
Absent == <<>>
Content(text) == <<text>>

\* ---------------------------------------------------------------- startup
\* main() is past ensure_config and the construction of TranskeetApp
Started == [pc |-> "ready"]

\* ------------------------------------------------------------------- Init
Init ==
    /\ hotkey_keys \in Combos
    /\ pressed_keys = {}
    /\ physical = {}
    /\ recording = FALSE
    /\ hotkey_recording = FALSE
    /\ stream = FALSE
    /\ openStreams = 0
    /\ audio_frames = <<>>
    /\ captured = <<>>
    /\ listenerPc = "idle"
    /\ title = ICON_IDLE
    /\ toggle_title = "Start Recording"
    /\ model_loaded = FALSE
    /\ tasks = [i \in TaskIds |-> FreeTask]
    /\ startedBy = "none"
    /\ ended = NoRun
    /\ clipboard = Absent
    /\ prior_clipboard = clipboard
    /\ clipboard_fault = FALSE
    /\ startup = Started
    /\ vocab_replacements = build_vocabulary_replacements(<<>>)

\* ------------------------------------------------------------ controller
\* sd.InputStream(...) raises (no input device): the buffer has been reset,
\* nothing else is assigned, and no caller of _start_recording has a handler
stream_open_fails ==
    /\ audio_frames' = <<>>
    /\ ended' = [NoRun EXCEPT !.what = "start_failed", !.err = "device",
                              !.uncaught = TRUE]
    /\ UNCHANGED <<recording, stream, openStreams, captured, title,
                   toggle_title, tasks, startedBy>>

_start_recording(by) ==
    \/ /\ openStreams < MaxStreams
       /\ audio_frames' = <<>>
       /\ captured' = IF recording THEN captured ELSE <<>>
       /\ stream' = TRUE
       /\ openStreams' = openStreams + 1
       /\ recording' = TRUE
       /\ title' = ICON_RECORDING
       /\ toggle_title' = "Stop Recording"
       /\ startedBy' = by
       /\ ended' = NoRun
       /\ UNCHANGED tasks
    \/ stream_open_fails

\* mutant: the empty-buffer check is missing, a thread is always started
_stop_recording_always_dispatch ==
    /\ stream' = FALSE
    /\ openStreams' = IF stream THEN openStreams - 1 ELSE openStreams
    /\ recording' = FALSE
    /\ toggle_title' = "Start Recording"
    /\ startedBy' = "none"
    /\ captured' = <<>>
    /\ title' = ICON_TRANSCRIBING
    /\ ended' = NoRun
    /\ audio_frames' = <<>>
    /\ \E i \in TaskIds :
         /\ ~InFlight(i)
         /\ \A j \in TaskIds : ~InFlight(j) => i <= j
         /\ tasks' = [tasks EXCEPT ![i] =
                [pc |-> "start", n |-> AudioLen(audio_frames)]]

_stop_recording ==
    /\ stream' = FALSE
    /\ openStreams' = IF stream THEN openStreams - 1 ELSE openStreams
    /\ recording' = FALSE
    /\ toggle_title' = "Start Recording"
    /\ startedBy' = "none"
    /\ captured' = <<>>
    /\ IF audio_frames = <<>>
       THEN /\ title' = ICON_IDLE
            /\ ended' = [NoRun EXCEPT !.what = "empty_stop"]
            /\ UNCHANGED <<audio_frames, tasks>>
       ELSE /\ title' = ICON_TRANSCRIBING
            /\ ended' = NoRun
            /\ audio_frames' = <<>>
            /\ \E i \in TaskIds :
                 /\ ~InFlight(i)
                 /\ \A j \in TaskIds : ~InFlight(j) => i <= j
                 /\ tasks' = [tasks EXCEPT ![i] =
                        [pc |-> "start", n |-> AudioLen(audio_frames)]]

_audio_callback(c) ==
    /\ openStreams > 0
    /\ Len(audio_frames) < MaxChunks
    /\ audio_frames' = Append(audio_frames, c)
    /\ captured' = IF recording THEN Append(captured, c) ELSE captured
    /\ UNCHANGED <<keyVars, recording, stream, openStreams, title,
                   toggle_title, model_loaded, tasks, startedBy, envVars>>
    /\ ended' = NoRun

\* --------------------------------------------------------------- UI thread
\* with self._lock: the block runs as one step, no other holder inside it
_toggle_recording ==
    /\ IF recording THEN _stop_recording ELSE _start_recording("menu")
    /\ UNCHANGED <<keyVars, model_loaded, envVars>>

\* --------------------------------------------------------- listener thread
\* on_press up to the `with self._lock`
on_press(key) ==
    /\ listenerPc = "idle"
    /\ Cardinality(physical \cup {key}) <= MaxHeld
    /\ physical' = physical \cup {key}
    /\ pressed_keys' = pressed_keys \cup {_canonical(key, hotkey_keys)}
    /\ IF hotkey_keys \subseteq pressed_keys' /\ ~recording
       THEN /\ hotkey_recording' = TRUE
            /\ listenerPc' = "start_wait"
       ELSE UNCHANGED <<hotkey_recording, listenerPc>>
    /\ ended' = NoRun
    /\ UNCHANGED <<hotkey_keys, ctlVars, model_loaded, envVars>>

\* on_release up to the `with self._lock`
on_release(key) ==
    /\ listenerPc = "idle"
    /\ key \in physical
    /\ physical' = physical \ {key}
    /\ pressed_keys' = pressed_keys \ {_canonical(key, hotkey_keys)}
    /\ IF hotkey_recording /\ ~(hotkey_keys \subseteq pressed_keys')
       THEN /\ hotkey_recording' = FALSE
            /\ listenerPc' = "stop_wait"
       ELSE UNCHANGED <<hotkey_recording, listenerPc>>
    /\ ended' = NoRun
    /\ UNCHANGED <<hotkey_keys, ctlVars, model_loaded, envVars>>

\* with self._lock: self._start_recording()
on_press_locked ==
    /\ listenerPc = "start_wait"
    /\ _start_recording("hotkey")
    /\ listenerPc' = "idle"
    /\ UNCHANGED <<hotkey_keys, pressed_keys, physical, hotkey_recording,
                   model_loaded, envVars>>

\* with self._lock: if self._recording: self._stop_recording()
on_release_locked ==
    /\ listenerPc = "stop_wait"
    /\ IF recording THEN _stop_recording
                    ELSE ended' = NoRun /\ UNCHANGED ctlVars
    /\ listenerPc' = "idle"
    /\ UNCHANGED <<hotkey_keys, pressed_keys, physical, hotkey_recording,
                   model_loaded, envVars>>

\* ------------------------------------------------------------ model loader
\* Transcriber.load succeeding on the start-up thread; a failed load there
\* only posts a notification and leaves the model unset
load ==
    /\ ~model_loaded
    /\ model_loaded' = TRUE
    /\ ended' = NoRun
    /\ UNCHANGED <<keyVars, ctlVars, envVars>>

\* ------------------------------------------------------ background thread
ErrorKinds == {"load", "wav", "engine", "paste"}

\* Transcriber.transcribe(audio) for len(audio) = n: the ways it can end.
\* ok: it returned text; otherwise it raised err.  loaded: the model is set
\* afterwards.  invoked: self._model.transcribe was called.
transcribe(n, loaded) ==
    LET ret == [ok |-> TRUE, err |-> "none", invoked |-> FALSE, text |-> "",
                loaded |-> TRUE]
    IN  (IF loaded THEN {}
         ELSE {[ret EXCEPT !.ok = FALSE, !.err = "load", !.loaded = FALSE]})
        \cup
        (IF TooShort(n) THEN {ret}
         ELSE {[ret EXCEPT !.ok = FALSE, !.err = "wav"]}
              \cup {[ret EXCEPT !.ok = FALSE, !.err = "engine", !.invoked = TRUE]}
              \cup {[ret EXCEPT !.invoked = TRUE, !.text = txt] : txt \in Texts})

\* mutant: the handler catches the engine's error type only
CatchesEngineOnly(err) == err = "engine"

\* except Exception as e
Catches(err) == err \in ErrorKinds

\* an exception raised inside the try block: the handler prints and posts
\* the notification when it catches the exception
Raised(run, err) ==
    [run EXCEPT !.err = err,
                !.outcome = IF Catches(err) THEN "error" ELSE "none",
                !.uncaught = ~Catches(err)]

\* the try block after transcribe returned r: the ways the thread can end
AfterTranscribe(n, r) ==
    LET run == [NoRun EXCEPT !.what = "thread", !.n = n, !.text = r.text,
                             !.invoked = r.invoked]
    IN  IF ~r.ok THEN {Raised(run, r.err)}
        ELSE IF r.text # ""
             THEN {[run EXCEPT !.outcome = "pasted"], Raised(run, "paste")}
             ELSE {[run EXCEPT !.outcome = "no_speech"]}

\* mutant: the finally clause does not touch the title
task_finally_skipped == UNCHANGED title

\* finally: self.title = ICON_IDLE
task_finally == title' = ICON_IDLE

_transcribe_and_paste(i) ==
    /\ tasks[i].pc = "start"
    /\ \E r \in transcribe(tasks[i].n, model_loaded) :
         /\ model_loaded' = r.loaded
         /\ \E run \in AfterTranscribe(tasks[i].n, r) : ended' = run
    /\ task_finally
    /\ tasks' = [tasks EXCEPT ![i] = FreeTask]
    /\ UNCHANGED <<keyVars, recording, stream, openStreams, audio_frames,
                   captured,
                   toggle_title, startedBy, envVars>>

\* ------------------------------------- background thread, step by step
\* the try block ends: the thread is over, with the finally clause
task_end(i, run) ==
    /\ tasks' = [tasks EXCEPT ![i] = FreeTask]
    /\ ended' = run
    /\ task_finally

\* text = self._transcriber.transcribe(audio); if text: ... else: ...
task_transcribe(i) ==
    /\ tasks[i].pc = "start"
    /\ \E r \in transcribe(tasks[i].n, model_loaded) :
         LET run == [NoRun EXCEPT !.what = "thread", !.n = tasks[i].n,
                                  !.text = r.text, !.invoked = r.invoked]
         IN  /\ model_loaded' = r.loaded
             /\ IF ~r.ok THEN task_end(i, Raised(run, r.err))
                ELSE IF r.text # ""
                THEN /\ tasks' = [tasks EXCEPT ![i] =
                            [pc |-> IF Len(vocab_replacements) = 0
                                    THEN "get" ELSE "rewrite",
                             n |-> tasks[i].n, raw |-> r.text,
                             text |-> r.text, k |-> 1, saved |-> Absent]]
                     /\ ended' = NoRun
                     /\ UNCHANGED title
                ELSE task_end(i, [run EXCEPT !.outcome = "no_speech"])
    /\ UNCHANGED <<keyVars, recording, stream, openStreams, audio_frames,
                   captured,
                   toggle_title, startedBy, envVars>>

\* mutant: the rule list is walked from its end
NextRuleReversed(rules, k) == rules[Len(rules) + 1 - k]

\* for pattern, replacement in self._vocab_replacements: the k-th iteration
NextRule(rules, k) == rules[k]

\* text = pattern.sub(replacement, text): one iteration of the loop
task_rewrite(i) ==
    /\ tasks[i].pc = "rewrite"
    /\ LET rule == NextRule(vocab_replacements, tasks[i].k)
       IN  tasks' = [tasks EXCEPT
                ![i].text = Sub(rule.pattern, rule.replacement, @),
                ![i].k = @ + 1,
                ![i].pc = IF tasks[i].k = Len(vocab_replacements)
                          THEN "get" ELSE "rewrite"]
    /\ ended' = NoRun
    /\ UNCHANGED <<keyVars, recording, stream, openStreams, audio_frames,
                   captured,
                   title, toggle_title, model_loaded, startedBy, envVars>>

\* positions inside _paste_and_restore
PastePcs == {"get", "set", "key", "restore"}

\* what the thread reports when it ends from inside _paste_and_restore
ThreadRun(i) ==
    [NoRun EXCEPT !.what = "thread", !.n = tasks[i].n,
                  !.text = tasks[i].text, !.invoked = TRUE]

\* saved = _get_clipboard()
paste_get(i) ==
    /\ tasks[i].pc = "get"
    /\ tasks' = [tasks EXCEPT ![i].saved = clipboard, ![i].pc = "set"]
    /\ ended' = NoRun
    /\ UNCHANGED <<keyVars, recording, stream, openStreams, audio_frames,
                   captured,
                   title, toggle_title, model_loaded, startedBy, envVars>>

\* _set_clipboard(text)
paste_set(i) ==
    /\ tasks[i].pc = "set"
    /\ clipboard' = Content(tasks[i].text)
    /\ tasks' = [tasks EXCEPT ![i].pc = "key"]
    /\ ended' = NoRun
    /\ UNCHANGED <<keyVars, recording, stream, openStreams, audio_frames,
                   captured,
                   title, toggle_title, model_loaded, startedBy,
                   prior_clipboard, clipboard_fault, vocab_replacements,
                   startup>>

\* time.sleep(0.05); _simulate_paste(); time.sleep(0.15)
paste_key(i) ==
    /\ tasks[i].pc = "key"
    /\ tasks' = [tasks EXCEPT ![i].pc = "restore"]
    /\ ended' = NoRun
    /\ UNCHANGED <<keyVars, recording, stream, openStreams, audio_frames,
                   captured,
                   title, toggle_title, model_loaded, startedBy, envVars>>

\* mutant: an absent snapshot leaves the pasteboard as it is
RestoredUnlessAbsent(saved, current) ==
    IF saved # Absent THEN saved ELSE current

\* if saved is not None: _set_clipboard(saved) else: clearContents()
Restored(saved, current) ==
    IF saved # Absent THEN saved ELSE Absent

\* the restore, the return to _transcribe_and_paste and its finally clause
paste_restore(i) ==
    /\ tasks[i].pc = "restore"
    /\ clipboard' = Restored(tasks[i].saved, clipboard)
    /\ task_end(i, [ThreadRun(i) EXCEPT !.outcome = "pasted"])
    /\ UNCHANGED <<keyVars, recording, stream, openStreams, audio_frames,
                   captured,
                   toggle_title, model_loaded, startedBy,
                   prior_clipboard, clipboard_fault, vocab_replacements,
                   startup>>

\* a pasteboard call or the keystroke raises: _paste_and_restore has no
\* handler, the exception reaches the handler of _transcribe_and_paste
paste_raise(i) ==
    /\ tasks[i].pc \in PastePcs
    /\ clipboard_fault' = TRUE
    /\ task_end(i, Raised(ThreadRun(i), "paste"))
    /\ UNCHANGED <<keyVars, recording, stream, openStreams, audio_frames,
                   captured,
                   toggle_title, model_loaded, startedBy,
                   clipboard, prior_clipboard, vocab_replacements, startup>>

\* what the user may have on the pasteboard
UserClipboards == {Absent, Content("old"), Content("")}

\* the application after construction, with a vocabulary configured
TaskInit ==
    /\ hotkey_keys = {Key(N_cmd_r)}
    /\ pressed_keys = {}
    /\ physical = {}
    /\ recording = FALSE
    /\ hotkey_recording = FALSE
    /\ stream = FALSE
    /\ openStreams = 0
    /\ audio_frames = <<>>
    /\ captured = <<>>
    /\ listenerPc = "idle"
    /\ title = ICON_IDLE
    /\ toggle_title = "Start Recording"
    /\ model_loaded = FALSE
    /\ tasks = [i \in TaskIds |-> FreeTask]
    /\ startedBy = "none"
    /\ ended = NoRun
    /\ clipboard \in UserClipboards
    /\ prior_clipboard = clipboard
    /\ clipboard_fault = FALSE
    /\ startup = Started
    /\ vocab_replacements \in
          {build_vocabulary_replacements(v) : v \in Vocabularies}

TaskNext ==
    \/ \E c \in ChunkSizes : _audio_callback(c)
    \/ _toggle_recording
    \/ load
    \/ \E i \in TaskIds : task_transcribe(i)
    \/ \E i \in TaskIds : task_rewrite(i)
    \/ \E i \in TaskIds : paste_get(i)
    \/ \E i \in TaskIds : paste_set(i)
    \/ \E i \in TaskIds : paste_key(i)
    \/ \E i \in TaskIds : paste_restore(i)
    \/ \E i \in TaskIds : paste_raise(i)

TaskSpec == TaskInit /\ [][TaskNext]_vars

\* one background thread, the engine having just returned a text
PasteInit ==
    /\ hotkey_keys = {Key(N_cmd_r)}
    /\ pressed_keys = {}
    /\ physical = {}
    /\ recording = FALSE
    /\ hotkey_recording = FALSE
    /\ stream = FALSE
    /\ openStreams = 0
    /\ audio_frames = <<>>
    /\ captured = <<>>
    /\ listenerPc = "idle"
    /\ title = ICON_TRANSCRIBING
    /\ toggle_title = "Start Recording"
    /\ model_loaded = TRUE
    /\ startedBy = "none"
    /\ ended = NoRun
    /\ clipboard \in UserClipboards
    /\ prior_clipboard = clipboard
    /\ clipboard_fault = FALSE
    /\ startup = Started
    /\ vocab_replacements \in
          {build_vocabulary_replacements(v) : v \in MoreVocabularies}
    /\ \E i \in TaskIds, raw \in Texts \ {""} :
          tasks = [j \in TaskIds |->
                     IF j = i
                     THEN [pc |-> IF Len(vocab_replacements) = 0
                                  THEN "get" ELSE "rewrite",
                           n |-> MinSamples, raw |-> raw, text |-> raw,
                           k |-> 1, saved |-> Absent]
                     ELSE FreeTask]

PasteNext ==
    \/ \E i \in TaskIds : task_rewrite(i)
    \/ \E i \in TaskIds : paste_get(i)
    \/ \E i \in TaskIds : paste_set(i)
    \/ \E i \in TaskIds : paste_key(i)
    \/ \E i \in TaskIds : paste_restore(i)
    \/ \E i \in TaskIds : paste_raise(i)

PasteSpec == PasteInit /\ [][PasteNext]_vars

\* ------------------------------------------------- startup, step by step
\* Python values, as json.loads produces them
JNull == [json |-> "null"]
JBool(b) == [json |-> "bool", b |-> b]
JNum(n) == [json |-> "number", n |-> n]
JStr(s) == [json |-> "string", s |-> s]
JArr(items) == [json |-> "array", items |-> items]
\* a dict is the sequence of its <<key, value>> pairs in insertion order
JObj(pairs) == [json |-> "object", pairs |-> pairs]

DEFAULT_CONFIG ==
    << <<JStr("hotkey"), JStr("cmd_r")>>,
       <<JStr("model"), JStr("mlx-community/parakeet-tdt-0.6b-v3")>> >>

HasKey(d, key) == \E k \in 1..Len(d) : d[k][1] = key

\* d[key]
Get(d, key) == d[CHOOSE k \in 1..Len(d) : d[k][1] = key][2]

\* d[key] = value
SetItem(d, key, value) ==
    IF HasKey(d, key)
    THEN [k \in 1..Len(d) |-> IF d[k][1] = key THEN <<key, value>> ELSE d[k]]
    ELSE Append(d, <<key, value>>)

RECURSIVE SetItems(_, _)
SetItems(d, pairs) ==
    IF pairs = <<>> THEN d
    ELSE SetItems(SetItem(d, pairs[1][1], pairs[1][2]), Tail(pairs))

Hashable(v) == v.json \notin {"array", "object"}

\* what dict.update makes of one element of an iterable: a pair, or the
\* exception it raises
PairOf(item) ==
    CASE item.json \in {"null", "bool", "number"} ->
             [ok |-> FALSE, err |-> "TypeError"]
      [] item.json = "string" ->
             IF Len(item.s) = 2
             THEN [ok |-> TRUE,
                   pair |-> <<JStr(CharAt(item.s, 1)), JStr(CharAt(item.s, 2))>>]
             ELSE [ok |-> FALSE, err |-> "ValueError"]
      [] item.json = "array" ->
             IF Len(item.items) # 2 THEN [ok |-> FALSE, err |-> "ValueError"]
             ELSE IF ~Hashable(item.items[1])
                  THEN [ok |-> FALSE, err |-> "TypeError"]
                  ELSE [ok |-> TRUE, pair |-> <<item.items[1], item.items[2]>>]
      [] item.json = "object" ->
             IF Len(item.pairs) # 2 THEN [ok |-> FALSE, err |-> "ValueError"]
             ELSE [ok |-> TRUE, pair |-> <<item.pairs[1][1], item.pairs[2][1]>>]

\* the elements iterating over a value yields
Elements(v) ==
    IF v.json = "string" THEN [k \in 1..Len(v.s) |-> JStr(CharAt(v.s, k))]
    ELSE v.items

\* dict.update(other): the updated dict, or the exception raised
Update(d, other) ==
    CASE other.json = "object" -> [ok |-> TRUE, dict |-> SetItems(d, other.pairs)]
      [] other.json \in {"null", "bool", "number"} ->
             [ok |-> FALSE, err |-> "TypeError"]
      [] OTHER ->
             LET items == Elements(other)
                 bad == {k \in 1..Len(items) : ~PairOf(items[k]).ok}
             IN  IF bad = {}
                 THEN [ok |-> TRUE,
                       dict |-> SetItems(d, [k \in 1..Len(items) |->
                                                 PairOf(items[k]).pair])]
                 ELSE [ok |-> FALSE,
                       err |-> PairOf(items[CHOOSE k \in bad :
                                                \A h \in bad : k <= h]).err]

\* hotkey fields a user may write
HotkeySpecs ==
    {"cmd_r", "cmd", "command", "cmd+space", " CMD + Space ", "Cmd_L+a",
     "ctrl+alt+f1", "control+option+f1", "shift+a", "shift_l+esc", "a+b",
     "cmd+", "+", "", " ", "cmd+bogus", "spacebar", "mro", "cmd+mro",
     "__doc__", "f1+ctrl_r+alt_l"}

\* the configuration file: absent, text json.loads rejects, or the value
\* json.loads returns for its text once comments and trailing commas are gone
MissingFile == [kind |-> "missing"]
UnparsableFile == [kind |-> "unparsable"]
ValueFile(v) == [kind |-> "value", value |-> v]

ConfigFiles ==
    {MissingFile, UnparsableFile}
    \cup {ValueFile(JObj(<< <<JStr("hotkey"), JStr(s)>> >>)) : s \in HotkeySpecs}
    \cup {ValueFile(v) : v \in
            {JObj(<<>>),
             JObj(<< <<JStr("model"), JStr("tiny")>> >>),
             JObj(<< <<JStr("hotkey"), JNum(1)>> >>),
             JObj(<< <<JStr("hotkey"), JNull>> >>),
             JObj(<< <<JStr("vocabulary"), JArr(<<>>)>>,
                     <<JStr("hotkey"), JStr("alt_r")>> >>),
             JNull, JBool(TRUE), JNum(42), JStr(""), JStr("ab"),
             JArr(<<>>), JArr(<<JNum(1)>>), JArr(<<JStr("ab")>>),
             JArr(<<JArr(<<JStr("hotkey"), JStr("f1")>>)>>),
             JArr(<<JArr(<<JStr("hotkey")>>)>>),
             JArr(<<JArr(<<JArr(<<>>), JStr("x")>>)>>)}}

\* main() before ensure_config
Launch(file) ==
    [pc |-> "ensure_config", file |-> file, config |-> <<>>, spec |-> "",
     parts |-> <<>>, keys |-> {}, raised_in |-> "", err |-> ""]

\* an exception leaves main()
Exit(where, err) == [startup EXCEPT !.pc = "exit", !.raised_in = where, !.err = err]

ensure_config ==
    /\ startup.pc = "ensure_config"
    /\ startup' =
         CASE startup.file.kind = "missing" ->
                  [startup EXCEPT !.pc = "_parse_hotkey",
                                  !.file = ValueFile(JObj(DEFAULT_CONFIG)),
                                  !.config = DEFAULT_CONFIG]
           [] startup.file.kind = "unparsable" ->
                  [startup EXCEPT !.pc = "_parse_hotkey", !.config = DEFAULT_CONFIG]
           [] OTHER ->
                  LET merged == Update(DEFAULT_CONFIG, startup.file.value)
                  IN  IF merged.ok
                      THEN [startup EXCEPT !.pc = "_parse_hotkey",
                                           !.config = merged.dict]
                      ELSE Exit("ensure_config", merged.err)
    /\ UNCHANGED <<keyVars, ctlVars, model_loaded, ended, clipVars,
                   vocab_replacements>>

_MODIFIER_MAP ==
    [cmd |-> "Key.cmd", command |-> "Key.cmd", cmd_r |-> "Key.cmd_r",
     cmd_l |-> "Key.cmd_l", shift |-> "Key.shift", shift_r |-> "Key.shift_r",
     shift_l |-> "Key.shift_l", ctrl |-> "Key.ctrl", control |-> "Key.ctrl",
     ctrl_r |-> "Key.ctrl_r", ctrl_l |-> "Key.ctrl_l", alt |-> "Key.alt",
     option |-> "Key.alt", alt_r |-> "Key.alt_r", alt_l |-> "Key.alt_l"]

\* KeyCode.from_char(char)
KeyCode(char) == [char |-> char]

\* getattr(Key, name): a member, another attribute of the class, or
\* AttributeError
getattr_Key(name) ==
    IF name \in KeyNames THEN [ok |-> TRUE, value |-> Key(Chars(name))]
    ELSE IF name \in KeyClassAttrs THEN [ok |-> TRUE, value |-> [attr |-> name]]
    ELSE [ok |-> FALSE]

\* the body of the loop of _parse_hotkey for one part
ParsePart(part) ==
    IF part \in DOMAIN _MODIFIER_MAP
    THEN getattr_Key(Split(_MODIFIER_MAP[part], ".")[2])
    ELSE IF Len(part) = 1
         THEN [ok |-> TRUE, value |-> KeyCode(part)]
         ELSE getattr_Key(part)

\* _parse_hotkey up to its loop: spec.split("+"), each part stripped and
\* lower-cased
_parse_hotkey ==
    /\ startup.pc = "_parse_hotkey"
    /\ LET hotkey == Get(startup.config, JStr("hotkey"))
       IN  startup' =
             IF hotkey.json # "string"
             THEN Exit("_parse_hotkey", "AttributeError")
             ELSE [startup EXCEPT
                     !.pc = "part",
                     !.spec = hotkey.s,
                     !.parts = LET raw == Split(hotkey.s, "+")
                               IN  [k \in 1..Len(raw) |-> Lower(Strip(raw[k]))],
                     !.keys = {}]
    /\ UNCHANGED <<keyVars, ctlVars, model_loaded, ended, clipVars,
                   vocab_replacements>>

\* one turn of the loop of _parse_hotkey; after the last part the set is
\* returned and becomes self._hotkey_keys
_parse_hotkey_part ==
    /\ startup.pc = "part"
    /\ LET r == ParsePart(Head(startup.parts))
           keys == startup.keys \cup {r.value}
       IN  IF ~r.ok
           THEN /\ startup' = Exit("_parse_hotkey", "ValueError")
                /\ UNCHANGED hotkey_keys
           ELSE IF Len(startup.parts) > 1
                THEN /\ startup' = [startup EXCEPT !.parts = Tail(@), !.keys = keys]
                     /\ UNCHANGED hotkey_keys
                ELSE /\ startup' = [startup EXCEPT !.pc = "ready",
                                                   !.parts = <<>>, !.keys = keys]
                     /\ hotkey_keys' = keys
    /\ UNCHANGED <<pressed_keys, physical, hotkey_recording, listenerPc,
                   ctlVars, model_loaded, ended, clipVars, vocab_replacements>>

StartupInit ==
    /\ hotkey_keys = {}
    /\ pressed_keys = {}
    /\ physical = {}
    /\ recording = FALSE
    /\ hotkey_recording = FALSE
    /\ stream = FALSE
    /\ openStreams = 0
    /\ audio_frames = <<>>
    /\ captured = <<>>
    /\ title = ICON_IDLE
    /\ toggle_title = "Start Recording"
    /\ model_loaded = FALSE
    /\ tasks = [i \in TaskIds |-> FreeTask]
    /\ startedBy = "none"
    /\ listenerPc = "idle"
    /\ ended = NoRun
    /\ clipboard = Absent
    /\ prior_clipboard = clipboard
    /\ clipboard_fault = FALSE
    /\ vocab_replacements = build_vocabulary_replacements(<<>>)
    /\ \E file \in ConfigFiles : startup = Launch(file)

StartupNext ==
    \/ ensure_config
    \/ _parse_hotkey
    \/ _parse_hotkey_part

StartupSpec == StartupInit /\ [][StartupNext]_vars

Next ==
    \/ \E c \in ChunkSizes : _audio_callback(c)
    \/ _toggle_recording
    \/ \E key \in Keyboard(hotkey_keys) : on_press(key)
    \/ \E key \in Keyboard(hotkey_keys) : on_release(key)
    \/ on_press_locked
    \/ on_release_locked
    \/ load
    \/ \E i \in TaskIds : _transcribe_and_paste(i)

Spec == Init /\ [][Next]_vars

\* a background thread that has been started eventually runs
FairSpec == Spec /\ \A i \in TaskIds : WF_vars(_transcribe_and_paste(i))

\* ------------------------------------------------------------------ claims
NumInFlight == Cardinality({i \in TaskIds : InFlight(i)})

\* the listener thread runs the locked block of on_press in this step
HotkeyStartStep == listenerPc = "start_wait" /\ listenerPc' = "idle"

\* the listener thread runs the locked block of on_release in this step
HotkeyStopStep == listenerPc = "stop_wait" /\ listenerPc' = "idle"

\* C1: in every reachable state at most one capture stream is open, and a
\* stream is open exactly when the controller is recording.
C1_OneStreamIffRecording ==
    /\ openStreams <= 1
    /\ (openStreams = 1) <=> recording

\* C2: a key release stops the active recording only if that recording was
\* started by the hotkey path, never one started by the menu toggle.
C2_ReleaseStopsOnlyHotkeyRecording ==
    [][(HotkeyStopStep /\ recording /\ ~recording') => startedBy = "hotkey"]_vars

\* C3: at most one background transcription task is in flight at any time.
C3_OneTaskInFlight == NumInFlight <= 1

\* C4: a start request that reaches the controller while a recording is
\* active is a no-op: still recording, no further stream opened, the buffer
\* collected so far kept.
C4_StartWhileRecordingIsNoOp ==
    [][(HotkeyStartStep /\ recording) =>
         (recording' /\ openStreams' = openStreams
                     /\ audio_frames' = audio_frames)]_vars

\* C5: a stop with zero chunks in the buffer takes the controller straight
\* from Recording to Idle: the stream is closed, no background task is
\* spawned and no transcription runs.
C5_EmptyStopGoesIdle ==
    [][(recording /\ ~recording' /\ audio_frames = <<>>) =>
         (title' = ICON_IDLE /\ tasks' = tasks /\ ~stream'
                             /\ ended'.what = "empty_stop")]_vars

\* a recording that captured no audio was just stopped
C5_Witness ==
    /\ ended.what = "empty_stop"
    /\ ~recording
    /\ title = ICON_IDLE
    /\ NumInFlight = 0

\* C6 as stated: a buffer shorter than 0.3 s always ends as "no speech
\* detected" with the engine not invoked, and a buffer of at least 0.3 s
\* always has the engine invoked.
C6_GateAsStated ==
    ended.what = "thread" =>
        IF ended.n < MinSamples
        THEN ~ended.invoked /\ ended.outcome = "no_speech"
        ELSE ended.invoked

\* C6 (amended): for a buffer of n samples, if n < 4800 the engine is never
\* invoked and nothing is pasted, and the outcome is "no speech detected"
\* unless the lazy model load fails first; if n >= 4800 the engine is
\* invoked unless the model load or the writing of the WAV file fails first.
C6_Gate ==
    ended.what = "thread" =>
        /\ ended.n < MinSamples =>
              /\ ~ended.invoked
              /\ ended.outcome # "pasted"
              /\ ended.err \in {"none", "load"}
              /\ ended.err = "none" =>
                    ended.outcome = "no_speech" /\ ended.text = ""
        /\ (ended.n >= MinSamples /\ ended.err \notin {"load", "wav"}) =>
              ended.invoked

\* a buffer shorter than 0.3 s was discarded as "no speech detected"
C6_Witness ==
    /\ ended.what = "thread"
    /\ ended.n < MinSamples
    /\ ended.outcome = "no_speech"

\* C7: every dispatched background task eventually ends, and the step that
\* ends it sets the Idle indicator, whatever the outcome of the task.
C7_TaskReturnsToIdle ==
    /\ \A i \in TaskIds : InFlight(i) ~> ~InFlight(i)
    /\ [][\A i \in TaskIds :
            (InFlight(i) /\ ~InFlight(i)') => title' = ICON_IDLE]_vars

\* a dispatched task has just ended and the Idle indicator is shown
C7_Witness ==
    /\ ended.what = "thread"
    /\ ended.outcome = "pasted"
    /\ title = ICON_IDLE

\* C8: an error raised inside the background task is caught there and
\* reported as a notification, never left unhandled, and afterwards a start
\* request from the menu is still accepted.
C8_TaskErrorsCaught ==
    (ended.what = "thread" /\ ended.err # "none") =>
        /\ ended.outcome = "error"
        /\ ~ended.uncaught
        /\ (~recording /\ openStreams < MaxStreams) =>
              ENABLED (_toggle_recording /\ recording')

\* the transcription engine failed in a background task, no recording is on
C8_Witness ==
    /\ ended.err = "engine"
    /\ ended.outcome = "error"
    /\ ~recording
    /\ openStreams < MaxStreams

\* the left and the right key of the cmd modifier
CmdVariants == {Key(N_cmd \o SUFFIX_L), Key(N_cmd \o SUFFIX_R)}

\* key goes down / comes up in this step
Pressed(key) == key \notin physical /\ key \in physical'
Released(key) == key \in physical /\ key \notin physical'

StartSignal == listenerPc = "idle" /\ listenerPc' = "start_wait"
StopSignal == listenerPc = "idle" /\ listenerPc' = "stop_wait"

\* the listener handles a key event in this step
KeyEventStep ==
    listenerPc = "idle" /\ (physical' # physical \/ listenerPc' # "idle")

\* C9: with the generic modifier in the combo, pressing its left or right
\* variant while the other required keys are held and no recording is active
\* emits a start signal, and none is emitted again while the recording
\* lasts; releasing the variant, the other side not being down, emits a stop
\* signal for a hotkey recording, and clears the flag so no second one follows.
C9_GenericModifierEitherSide ==
    [][(KeyEventStep /\ Key(N_cmd) \in hotkey_keys) =>
         /\ \A k \in CmdVariants :
              /\ (/\ Pressed(k)
                  /\ (hotkey_keys \ {Key(N_cmd)}) \subseteq pressed_keys
                  /\ ~recording) => StartSignal
              /\ (/\ Released(k)
                  /\ (CmdVariants \ {k}) \cap physical = {}
                  /\ hotkey_recording) => StopSignal
         /\ StartSignal => ~recording /\ hotkey_recording'
         /\ StopSignal => hotkey_recording /\ ~hotkey_recording']_vars

\* the combo cmd+space was completed by the right-hand cmd key
C9_Witness ==
    /\ hotkey_keys = {Key(N_cmd), Key(N_space)}
    /\ physical = {Key(N_cmd_r), Key(N_space)}
    /\ listenerPc = "start_wait"
    /\ hotkey_recording

\* C10: with a side-specific modifier in the combo, the match is never
\* satisfied and no start is signalled while that exact key is not down,
\* whatever generic or opposite-side keys are; side-specific keys stay
\* unmodified in the pressed-key set.
C10_SideSpecificNotCollapsed ==
    \A side \in CmdVariants :
        (side \in hotkey_keys /\ Key(N_cmd) \notin hotkey_keys) =>
            /\ \A k \in CmdVariants : k \in pressed_keys <=> k \in physical
            /\ side \notin physical =>
                  /\ ~(hotkey_keys \subseteq pressed_keys)
                  /\ listenerPc # "start_wait"

\* generic cmd and left cmd are down, the combo cmd_r is not matched
C10_Witness ==
    /\ hotkey_keys = {Key(N_cmd_r)}
    /\ physical = {Key(N_cmd), Key(N_cmd_l)}
    /\ pressed_keys = physical
    /\ listenerPc = "idle"
    /\ ~hotkey_recording
    /\ ~recording

\* C12: the samples handed to the transcription task at a stop are the
\* concatenation of exactly the chunks the capture callback delivered since
\* the recording became active (Idle -> Recording): none is lost.
C12_HandedAudioIsCaptured ==
    [][\A i \in TaskIds :
         (~InFlight(i) /\ InFlight(i)') =>
             tasks'[i].n = AudioLen(captured)]_vars

\* text after the rules from the k-th on have been applied in order
RECURSIVE ApplyRules(_, _, _)
ApplyRules(text, rules, k) ==
    IF k > Len(rules) THEN text
    ELSE ApplyRules(Sub(rules[k].pattern, rules[k].replacement, text),
                    rules, k + 1)

\* number of non-overlapping matches of pattern in text, counted from the left
RECURSIVE Matches(_, _)
Matches(pattern, text) ==
    IF Len(text) < Len(pattern) THEN 0
    ELSE IF SubSeq(text, 1, Len(pattern)) = pattern
         THEN 1 + Matches(pattern, SubSeq(text, Len(pattern) + 1, Len(text)))
         ELSE Matches(pattern, SubSeq(text, 2, Len(text)))

\* the two rewrites the specification gives as examples
ChainRules == build_vocabulary_replacements(
                  << <<"foo", "bar">>, <<"bar", "baz">> >>)
ProductRules == build_vocabulary_replacements(<< <<"vs code", "VS Code">> >>)

\* C13: the vocabulary rules are applied in configured order, each exactly
\* once: the k-th iteration applies rule k to the text as rules 1..k-1 left
\* it, replaces every non-overlapping match, and the loop is over after the
\* last rule; so (foo,bar),(bar,baz) turn "foo" into "baz", and (vs code,
\* VS Code) turns "i use vs code daily" into "i use VS Code daily".
C13_RulesInOrderOnce ==
    [][\A i \in TaskIds :
         (tasks[i].pc = "rewrite" /\ tasks'[i] # tasks[i]) =>
           LET k == tasks[i].k
               rule == vocab_replacements[k]
               before == tasks[i].text
               after == tasks'[i].text
           IN  /\ tasks'[i].k = k + 1
               /\ before = ApplyRules(tasks[i].raw,
                                      SubSeq(vocab_replacements, 1, k - 1), 1)
               /\ after = Sub(rule.pattern, rule.replacement, before)
               /\ Len(after) = Len(before) + Matches(rule.pattern, before)
                                 * (Len(rule.replacement) - Len(rule.pattern))
               /\ tasks'[i].pc = IF k = Len(vocab_replacements)
                                 THEN "get" ELSE "rewrite"
               /\ (tasks'[i].pc = "get" /\ vocab_replacements = ChainRules
                     /\ tasks[i].raw = "foo") => after = "baz"
               /\ (tasks'[i].pc = "get" /\ vocab_replacements = ProductRules
                     /\ tasks[i].raw = "i use vs code daily")
                     => after = "i use VS Code daily"]_vars

\* the loop is over for "foo" with the two chained rules: the text is "baz"
C13_Witness ==
    /\ vocab_replacements = ChainRules
    /\ \E i \in TaskIds :
         /\ tasks[i].pc = "get"
         /\ tasks[i].raw = "foo"
         /\ tasks[i].text = "baz"
         /\ tasks[i].k = 3

\* C14: when opening the audio stream fails during a start request, the
\* failure is reported to the user, the controller is Idle with no stream
\* object retained, and a later start request is accepted.
C14_OpenFailureReported ==
    ended.what = "start_failed" =>
        /\ ended.outcome = "error"
        /\ ~ended.uncaught
        /\ ~recording
        /\ ~stream
        /\ title = ICON_IDLE
        /\ openStreams < MaxStreams => ENABLED (_toggle_recording /\ recording')

\* C15: a failure of a clipboard step of the paste-and-restore sequence is
\* never raised to the caller of the sequence: no background thread ends
\* with a clipboard error in its exception handler.
C15_ClipboardErrorsNotRaised ==
    (ended.what = "thread" /\ clipboard_fault) =>
        /\ ended.err # "paste"
        /\ ended.outcome # "error"

\* thread i moves from one position to another in this step
Moves(i, from, to) == tasks[i].pc = from /\ tasks'[i].pc = to

\* C11: one paste-and-restore sequence, nothing else writing the clipboard:
\* the steps come in the order snapshot, overwrite, keystroke, restore; the
\* snapshot is the prior content; the pasted text is on the clipboard from
\* the overwrite on, when the keystroke is issued and until the restore; the
\* restore brings back the prior content, or leaves the clipboard cleared if
\* there was none.  A step that raises ends the sequence.
C11_PasteSequenceOrdered ==
    [][\A i \in TaskIds : tasks[i].pc \in PastePcs =>
         \/ /\ Moves(i, "get", "set")
            /\ clipboard = prior_clipboard
            /\ clipboard' = clipboard
            /\ tasks'[i].saved = prior_clipboard
         \/ /\ Moves(i, "set", "key")
            /\ clipboard' = Content(tasks[i].text)
         \/ /\ Moves(i, "key", "restore")
            /\ clipboard = Content(tasks[i].text)
            /\ clipboard' = clipboard
         \/ /\ Moves(i, "restore", "free")
            /\ clipboard = Content(tasks[i].text)
            /\ clipboard' = prior_clipboard
            /\ prior_clipboard = Absent => clipboard' = Absent
            /\ ended'.outcome = "pasted"
         \/ /\ tasks'[i].pc = "free"
            /\ ended'.err = "paste"]_vars

\* a sequence has completed: "old" is back on the clipboard after the
\* rewritten text "baz" was pasted
C11_Witness ==
    /\ ended.what = "thread"
    /\ ended.outcome = "pasted"
    /\ ended.text = "baz"
    /\ prior_clipboard = Content("old")
    /\ clipboard = Content("old")
    /\ ~clipboard_fault

\* the modifier names the configuration accepts, each with the key it names
KnownModifiers ==
    [n \in {"cmd", "cmd_l", "cmd_r", "shift", "shift_l", "shift_r", "ctrl",
            "ctrl_l", "ctrl_r", "alt", "alt_l", "alt_r"} |-> n]
    @@ [n \in {"command"} |-> "cmd"] @@ [n \in {"control"} |-> "ctrl"]
    @@ [n \in {"option"} |-> "alt"]

ValidToken(t) == t \in DOMAIN KnownModifiers \/ Len(t) = 1 \/ t \in KeyNames

KeyOfToken(t) ==
    IF t \in DOMAIN KnownModifiers THEN Key(Chars(KnownModifiers[t]))
    ELSE IF Len(t) = 1 THEN KeyCode(t) ELSE Key(Chars(t))

ParseReturned == startup.pc = "ready"
ParseFailed == startup.pc = "exit" /\ startup.raised_in = "_parse_hotkey"
                                   /\ startup.err = "ValueError"

\* C16: parsing a hotkey spec splits it on '+', trims and lower-cases each
\* token; when every token is a known modifier name (command/cmd,
\* control/ctrl, option/alt naming the same key), a single character or a
\* named key it returns the non-empty set of the keys the tokens name, and
\* when some token, an empty one included, is none of these it fails and
\* returns no combo.
C16_ParseAcceptsOnlyKnownTokens ==
    (ParseReturned \/ ParseFailed) =>
        LET raw == Split(startup.spec, "+")
            tokens == {Lower(Strip(raw[k])) : k \in 1..Len(raw)}
        IN  /\ (\A t \in tokens : ValidToken(t)) =>
                   /\ ParseReturned
                   /\ hotkey_keys # {}
                   /\ hotkey_keys = {KeyOfToken(t) : t \in tokens}
            /\ (\E t \in tokens : ~ValidToken(t)) =>
                   /\ ParseFailed
                   /\ hotkey_keys = {}
            /\ startup.spec = " CMD + Space " =>
                   hotkey_keys = {Key(N_cmd), Key(N_space)}
            /\ startup.spec = "control+option+f1" =>
                   hotkey_keys = {Key(Chars("ctrl")), Key(Chars("alt")),
                                  Key(Chars("f1"))}

\* the user's file holds an object that has the key
Supplied(file, key) ==
    /\ file.kind = "value"
    /\ file.value.json = "object"
    /\ HasKey(file.value.pairs, key)

\* C17: loading the configuration never crashes, whatever the file holds
\* (no file, unparsable text, a parsed value of any JSON shape), and every
\* key the user did not validly supply has its default value in the
\* configuration that is returned.
C17_LoadFallsBackToDefaults ==
    startup.pc # "ensure_config" =>
        /\ startup.raised_in # "ensure_config"
        /\ \A k \in 1..Len(DEFAULT_CONFIG) :
               LET key == DEFAULT_CONFIG[k][1]
               IN  ~Supplied(startup.file, key) =>
                       /\ HasKey(startup.config, key)
                       /\ Get(startup.config, key) = DEFAULT_CONFIG[k][2]

\* C18: the paste sequence is invoked only with non-empty text: when the
\* text left by transcription and vocabulary rewriting is empty, the
\* clipboard is not overwritten and no paste keystroke is sent.
C18_PasteOnlyNonEmptyText ==
    /\ \A i \in TaskIds : tasks[i].pc \in PastePcs => tasks[i].text # ""
    /\ \A i \in TaskIds :
           tasks[i].pc \in {"key", "restore"} => clipboard # Content("")
    /\ ended.what = "thread" /\ ended.outcome = "pasted" => ended.text # ""

\* C19: the indicator always reflects the controller state: whenever a
\* recording is active the title is the Recording icon and the menu label
\* reads "Stop Recording", and the Idle icon is shown only when no recording
\* is active and no transcription task is pending.
C19_IndicatorReflectsState ==
    /\ recording => title = ICON_RECORDING /\ toggle_title = "Stop Recording"
    /\ title = ICON_IDLE => ~recording /\ NumInFlight = 0

\* a paste-and-restore sequence started by the program is under way
SequenceUnderWay == \E i \in TaskIds : tasks[i].pc \in {"set", "key", "restore"}

\* C20: with no other writer and no failing clipboard step, once every
\* paste-and-restore sequence has completed the clipboard holds what it held
\* before the first of them began, also when two sequences overlap; every
\* snapshot taken is the user's content, never another task's pasted text.
C20_ClipboardRestoredAfterOverlap ==
    ~clipboard_fault =>
        /\ ~SequenceUnderWay => clipboard = prior_clipboard
        /\ \A i \in TaskIds : tasks[i].pc \in {"set", "key", "restore"} =>
               tasks[i].saved = prior_clipboard

\* the physical keys that count as the required key k: k itself and its
\* left and right variants
VariantsOf(k) == {k, Key(k.name \o SUFFIX_L), Key(k.name \o SUFFIX_R)}

\* C21: for a combo using the generic modifier, a key release stops a
\* hotkey-started recording only when some required key of the combo has no
\* physical variant still held after the release: while the left and the
\* right variant are both held, releasing one of them does not stop it.
C21_ReleaseStopsOnlyWhenNoVariantHeld ==
    [][(/\ HotkeyStopStep
        /\ recording /\ ~recording'
        /\ startedBy = "hotkey"
        /\ Key(N_cmd) \in hotkey_keys) =>
          \E k \in hotkey_keys : VariantsOf(k) \cap physical = {}]_vars

====
